---- MODULE Spec2Model ----
(***************************************************************************)
(* A model of src-tauri/src/lib.rs of Ursa-Markup: the clipboard image     *)
(* copy (queue_clipboard_copy_base64 / copy_png_to_clipboard), the pending *)
(* file store (PendingFiles / get_pending_files / setup) and the           *)
(* single-instance relay.                                                  *)
(*                                                                         *)
(* Text is modelled as TLA+ strings where it is only built and compared    *)
(* (error messages), and as sequences of tokens where the code looks       *)
(* inside it (base64 symbols, bytes, path and argument prefixes).          *)
(***************************************************************************)
EXTENDS Integers, Sequences, FiniteSets, TLC

(***************************************************************************)
(* Bounds of the model.                                                    *)
(***************************************************************************)
\* number of queue_clipboard_copy_base64 invocations in a run
NumRequests == 2
\* number of get_pending_files invocations in a run
MaxDrains == 2
\* number of second process instances launched in a run
MaxLaunches == 1
\* number of resolve_file_path calls made on their own in a run
MaxResolves == 2
\* number of threads that call get_pending_files at the same time
NumCallers == 2

Requests == 1 .. NumRequests
Callers == 1 .. NumCallers
\* the version tags callers pass (any u32 in the code)
Versions == {5, 6}

(***************************************************************************)
(* Result<T, String> and Option<String>.                                   *)
(***************************************************************************)
Ok(v) == [ok |-> TRUE, val |-> v, err |-> ""]
Err(e) == [ok |-> FALSE, val |-> <<>>, err |-> e]
\* Result<(), String>::Ok(())
OkUnit == Ok(<<>>)
\* Option<String>: None is the empty sequence, Some(s) the one-element one
None == <<>>
Some(s) == <<s>>
\* Result::err (line 65)
ResultErr(r) == IF r.ok THEN None ELSE Some(r.err)

(***************************************************************************)
(* base64::engine::general_purpose::STANDARD.decode (line 81-83).          *)
(* A base64 text is a sequence of symbols: 0..63 are the alphabet's        *)
(* values, PadSym is '=', BadSym a character outside the alphabet.         *)
(***************************************************************************)
PadSym == 64
BadSym == 65

RECURSIVE TrailingPads(_)
TrailingPads(s) ==
  IF s # <<>> /\ s[Len(s)] = PadSym
  THEN 1 + TrailingPads(SubSeq(s, 1, Len(s) - 1))
  ELSE 0

\* the bytes of a pad-free symbol sequence: 4 symbols give 3 bytes, a final
\* group of 2 gives 1 byte, of 3 gives 2 bytes
RECURSIVE SextetsToBytes(_)
SextetsToBytes(s) ==
  IF Len(s) < 2 THEN <<>>
  ELSE LET b1 == s[1] * 4 + s[2] \div 16
       IN IF Len(s) = 2 THEN <<b1>>
          ELSE LET b2 == (s[2] % 16) * 16 + s[3] \div 4
               IN IF Len(s) = 3 THEN <<b1, b2>>
                  ELSE <<b1, b2, (s[3] % 4) * 64 + s[4]>>
                       \o SextetsToBytes(SubSeq(s, 5, Len(s)))

\* the bits of the last symbol that belong to no byte
LeftoverBits(body) ==
  CASE Len(body) % 4 = 2 -> body[Len(body)] % 16
    [] Len(body) % 4 = 3 -> body[Len(body)] % 4
    [] OTHER -> 0

Base64Decode(s) ==
  LET pads == TrailingPads(s)
      body == SubSeq(s, 1, Len(s) - pads)
  IN  IF \E i \in 1 .. Len(body) : body[i] \notin 0 .. 63
        THEN Err("Invalid symbol")
      ELSE IF Len(body) % 4 = 1
        THEN Err("Invalid input length")
      ELSE IF pads > 2 \/ (Len(body) + pads) % 4 # 0
        THEN Err("Invalid padding")
      ELSE IF LeftoverBits(body) # 0
        THEN Err("Invalid last symbol")
      ELSE Ok(SextetsToBytes(body))

(***************************************************************************)
(* image::load_from_memory, dimensions and to_rgba8().into_raw()           *)
(* (line 86-90).  The container format is a stand-in for PNG: byte 1 is    *)
(* the magic number (0x89, PNG's first byte), byte 2 the width, the height *)
(* is 1 and byte 3 is the grey level of every pixel.                       *)
(***************************************************************************)
PngMagic == 137

RECURSIVE GreyPixels(_, _)
GreyPixels(n, g) ==
  IF n = 0 THEN <<>> ELSE <<g, g, g, 255>> \o GreyPixels(n - 1, g)

LoadFromMemory(bytes) ==
  IF Len(bytes) >= 3 /\ bytes[1] = PngMagic /\ bytes[2] >= 1
  THEN Ok([width |-> bytes[2], height |-> 1, rgba |-> GreyPixels(bytes[2], bytes[3])])
  ELSE Err("The image format could not be determined")

\* the payloads callers pass as image_base64
ImgTwoPx == <<34, 16, 8, 9>>        \* bytes 137 2 9: two grey pixels
NotAnImage == <<24, 22, 8, PadSym>> \* "YWI=": bytes 97 98
NoPadding == <<34, 16, 4>>
BadSymbol == <<34, BadSym, 4, 7>>
Payloads == {ImgTwoPx, NotAnImage, NoPadding, BadSymbol}

(***************************************************************************)
(* The outcomes of the operating system and the libraries.                 *)
(***************************************************************************)
\* Clipboard::new / set_image: Ok, or the handle cannot be acquired, or the
\* write is rejected, or the library panics (the one place where the model
\* lets the blocking closure abort)
PrimaryOutcomes == {"Ok", "NewErr", "SetErr", "Panic"}
ClipboardNewError == "The selected clipboard is not supported"
SetImageError == "The image could not be converted to the appropriate format"
SpawnError == "No such file or directory (os error 2)"
WriteError == "Broken pipe (os error 32)"
WaitError == "No child processes (os error 10)"
PanicText == "task panicked"
\* what wl-copy exits with and what it prints on its standard error
ExitCodes == {0, 1}
HelperDiagnostics == {"", "Failed to connect to a Wayland server"}

\* Command::new("wl-copy").arg("--type").arg("image/png") (line 114-116)
HelperArgv == <<"wl-copy", "--type", "image/png">>
\* .stdin(Stdio::piped()) and nothing else (line 117): spawn() leaves the
\* standard output and the standard error inherited from the application
HelperStdio == [stdin |-> "piped", stdout |-> "inherit", stderr |-> "inherit"]

NoImage == [width |-> 0, height |-> 0, rgba |-> <<>>]
NoChild ==
  [spawns |-> 0, running |-> FALSE, argv |-> <<>>, stdio |-> HelperStdio,
   stdin |-> <<>>, stdinOpen |-> FALSE, closedBeforeWait |-> FALSE,
   waited |-> FALSE, status |-> 0, wrote |-> ""]

VARIABLES
  req,        \* per call: None or Some of the arguments [image, version]
  cmdReturn,  \* per call: None or Some of the value the command returned
  pc,         \* per call: where its background task stands
  pngData,    \* per call: png_data, the bytes the base64 text decodes to
  image,      \* per call: img, the decoded image
  clipCalls,  \* per call: the calls made on arboard, in order
  child,      \* per call: the wl-copy process it spawned
  log,        \* per call: the lines it put on the application's stderr
  joined,     \* per call: None or Some of what spawn_blocking(..).await gave
  events,     \* the events emitted on the AppHandle, in order
  setupDone,  \* whether the setup hook has run
  launchArgs, \* the "file" argument the process was launched with
  store,      \* PendingFiles.paths
  drains,     \* what each get_pending_files call returned, in order
  launches,   \* the argument lists of the second instances launched so far
  resolveCalls, \* the calls of resolve_file_path made on their own: [path, cwd, out]
  lock,       \* PendingFiles.paths' mutex: 0 when free, else the caller holding it
  gpPc,       \* per concurrent get_pending_files caller: where it stands
  gpRet       \* per concurrent get_pending_files caller: the Vec it collects

copyVars == <<req, cmdReturn, pc, pngData, image, clipCalls, child, log, joined>>
fileVars == <<setupDone, launchArgs, store, drains, launches>>
auxVars == <<resolveCalls, lock, gpPc, gpRet>>
vars == <<copyVars, events, fileVars, auxVars>>

(***************************************************************************)
(* queue_clipboard_copy_base64 (line 48-72): tokio::spawn of the task, and *)
(* Ok(()) returned at once.  Calls are numbered in the order they are made.*)
(***************************************************************************)
\* the mutant of QueueClipboardCopy: the command decodes before it returns
QueueClipboardCopyAwaiting(r, image_base64, version) ==
  /\ pc[r] = "idle"
  /\ IF r = 1 THEN TRUE ELSE pc[r - 1] # "idle"
  /\ req' = [req EXCEPT ![r] = Some([image |-> image_base64, version |-> version])]
  /\ cmdReturn' = [cmdReturn EXCEPT ![r] =
       Some(IF Base64Decode(image_base64).ok /\ LoadFromMemory(Base64Decode(image_base64).val).ok
            THEN OkUnit ELSE Err("Failed to decode"))]
  /\ pc' = [pc EXCEPT ![r] = "blocking"]
  /\ UNCHANGED <<pngData, image, clipCalls, child, log, joined, events, fileVars, auxVars>>

QueueClipboardCopy(r, image_base64, version) ==
  /\ pc[r] = "idle"
  /\ IF r = 1 THEN TRUE ELSE pc[r - 1] # "idle"
  /\ req' = [req EXCEPT ![r] = Some([image |-> image_base64, version |-> version])]
  /\ cmdReturn' = [cmdReturn EXCEPT ![r] = Some(OkUnit)]
  /\ pc' = [pc EXCEPT ![r] = "blocking"]
  /\ UNCHANGED <<pngData, image, clipCalls, child, log, joined, events, fileVars, auxVars>>

\* the blocking closure returned v, or panicked
Return(r, v) ==
  /\ joined' = [joined EXCEPT ![r] = Some(Ok(v))]
  /\ pc' = [pc EXCEPT ![r] = "joined"]
Panic(r) ==
  /\ joined' = [joined EXCEPT ![r] = Some(Err(PanicText))]
  /\ pc' = [pc EXCEPT ![r] = "joined"]

(***************************************************************************)
(* copy_png_to_clipboard, line 80-90: base64 to bytes, bytes to pixels.    *)
(***************************************************************************)
\* the mutant of Decode: a payload that is no image goes on to the fallback
DecodeThenFallback(r) ==
  /\ pc[r] = "blocking"
  /\ LET b64 == Base64Decode(req[r][1].image)
         img == LoadFromMemory(b64.val)
     IN  IF ~b64.ok THEN
           /\ Return(r, Err("Failed to decode base64: " \o b64.err))
           /\ UNCHANGED <<pngData, image>>
         ELSE
           /\ pngData' = [pngData EXCEPT ![r] = b64.val]
           /\ image' = [image EXCEPT ![r] = IF img.ok THEN img.val ELSE NoImage]
           /\ pc' = [pc EXCEPT ![r] = IF img.ok THEN "primary" ELSE "spawn"]
           /\ UNCHANGED joined
  /\ UNCHANGED <<req, cmdReturn, clipCalls, child, log, events, fileVars, auxVars>>

Decode(r) ==
  /\ pc[r] = "blocking"
  /\ LET b64 == Base64Decode(req[r][1].image)
         img == LoadFromMemory(b64.val)
     IN  IF ~b64.ok THEN
           /\ Return(r, Err("Failed to decode base64: " \o b64.err))
           /\ UNCHANGED <<pngData, image>>
         ELSE IF ~img.ok THEN
           /\ Return(r, Err("Failed to decode PNG: " \o img.err))
           /\ pngData' = [pngData EXCEPT ![r] = b64.val]
           /\ UNCHANGED image
         ELSE
           /\ pngData' = [pngData EXCEPT ![r] = b64.val]
           /\ image' = [image EXCEPT ![r] = img.val]
           /\ pc' = [pc EXCEPT ![r] = "primary"]
           /\ UNCHANGED joined
  /\ UNCHANGED <<req, cmdReturn, clipCalls, child, log, events, fileVars, auxVars>>

(***************************************************************************)
(* copy_png_to_clipboard, line 92-111: the arboard attempt.                *)
(***************************************************************************)
ImageData(img) == [width |-> img.width, height |-> img.height, bytes |-> img.rgba]
ClipNew(ok) == [call |-> "Clipboard::new", arg |-> ImageData(NoImage), ok |-> ok]
ClipSetImage(img, ok) == [call |-> "set_image", arg |-> ImageData(img), ok |-> ok]

\* line 102: set_image succeeded, return Ok(())
PrimaryOk(r) ==
  /\ clipCalls' = [clipCalls EXCEPT ![r] =
       @ \o <<ClipNew(TRUE), ClipSetImage(image[r], TRUE)>>]
  /\ Return(r, OkUnit)
  /\ UNCHANGED log
\* line 103-105: set_image failed, log and go on to the fallback
PrimarySetErr(r) ==
  /\ clipCalls' = [clipCalls EXCEPT ![r] =
       @ \o <<ClipNew(TRUE), ClipSetImage(image[r], FALSE)>>]
  /\ log' = [log EXCEPT ![r] = Append(@,
       "arboard clipboard failed: " \o SetImageError \o ", trying wl-copy fallback")]
  /\ pc' = [pc EXCEPT ![r] = "spawn"]
  /\ UNCHANGED joined
\* line 108-110: Clipboard::new failed, log and go on to the fallback
PrimaryNewErr(r) ==
  /\ clipCalls' = [clipCalls EXCEPT ![r] = @ \o <<ClipNew(FALSE)>>]
  /\ log' = [log EXCEPT ![r] = Append(@,
       "Failed to create clipboard: " \o ClipboardNewError \o ", trying wl-copy fallback")]
  /\ pc' = [pc EXCEPT ![r] = "spawn"]
  /\ UNCHANGED joined
\* set_image panicked: the closure never returns
PrimaryPanic(r) ==
  /\ clipCalls' = [clipCalls EXCEPT ![r] = @ \o <<ClipNew(TRUE)>>]
  /\ Panic(r)
  /\ UNCHANGED log

\* a mutant of PrimaryAttempt: the return of line 102 is missing
PrimaryAttemptFallsThrough(r, outcome) ==
  /\ pc[r] = "primary"
  /\ CASE outcome = "Ok" ->
            /\ clipCalls' = [clipCalls EXCEPT ![r] =
                 @ \o <<ClipNew(TRUE), ClipSetImage(image[r], TRUE)>>]
            /\ pc' = [pc EXCEPT ![r] = "spawn"]
            /\ UNCHANGED <<log, joined>>
       [] outcome = "SetErr" -> PrimarySetErr(r)
       [] outcome = "NewErr" -> PrimaryNewErr(r)
       [] OTHER -> PrimaryPanic(r)
  /\ UNCHANGED <<req, cmdReturn, pngData, image, child, events, fileVars, auxVars>>

\* a mutant of PrimaryAttempt: the Clipboard::new error is returned with ?
PrimaryAttemptSurfacing(r, outcome) ==
  /\ pc[r] = "primary"
  /\ CASE outcome = "Ok" -> PrimaryOk(r)
       [] outcome = "SetErr" -> PrimarySetErr(r)
       [] outcome = "NewErr" ->
            /\ clipCalls' = [clipCalls EXCEPT ![r] = @ \o <<ClipNew(FALSE)>>]
            /\ Return(r, Err("Failed to create clipboard: " \o ClipboardNewError))
            /\ UNCHANGED log
       [] OTHER -> PrimaryPanic(r)
  /\ UNCHANGED <<req, cmdReturn, pngData, image, child, events, fileVars, auxVars>>

PrimaryAttempt(r, outcome) ==
  /\ pc[r] = "primary"
  /\ CASE outcome = "Ok" -> PrimaryOk(r)
       [] outcome = "SetErr" -> PrimarySetErr(r)
       [] outcome = "NewErr" -> PrimaryNewErr(r)
       [] OTHER -> PrimaryPanic(r)
  /\ UNCHANGED <<req, cmdReturn, pngData, image, child, events, fileVars, auxVars>>

(***************************************************************************)
(* copy_png_to_clipboard, line 113-119: spawn wl-copy.                     *)
(***************************************************************************)
\* the mutant of SpawnHelper: a spawn that failed is tried a second time
SpawnHelperRetrying(r, ok) ==
  /\ pc[r] = "spawn"
  /\ IF ok THEN
       /\ child' = [child EXCEPT ![r] =
            [@ EXCEPT !.spawns = @ + 1, !.running = TRUE, !.argv = HelperArgv,
                      !.stdio = HelperStdio,
                      !.stdinOpen = (HelperStdio.stdin = "piped")]]
       /\ pc' = [pc EXCEPT ![r] = "write"]
       /\ UNCHANGED joined
     ELSE IF child[r].spawns = 0 THEN
       /\ child' = [child EXCEPT ![r].spawns = @ + 1]
       /\ UNCHANGED <<pc, joined>>
     ELSE
       /\ child' = [child EXCEPT ![r].spawns = @ + 1]
       /\ Return(r, Err("Failed to spawn wl-copy: " \o SpawnError))
  /\ UNCHANGED <<req, cmdReturn, pngData, image, clipCalls, log, events, fileVars, auxVars>>

SpawnHelper(r, ok) ==
  /\ pc[r] = "spawn"
  /\ IF ok THEN
       /\ child' = [child EXCEPT ![r] =
            [@ EXCEPT !.spawns = @ + 1, !.running = TRUE, !.argv = HelperArgv,
                      !.stdio = HelperStdio,
                      !.stdinOpen = (HelperStdio.stdin = "piped")]]
       /\ pc' = [pc EXCEPT ![r] = "write"]
       /\ UNCHANGED joined
     ELSE
       /\ child' = [child EXCEPT ![r].spawns = @ + 1]
       /\ Return(r, Err("Failed to spawn wl-copy: " \o SpawnError))
  /\ UNCHANGED <<req, cmdReturn, pngData, image, clipCalls, log, events, fileVars, auxVars>>

(***************************************************************************)
(* copy_png_to_clipboard, line 121-126: write_all(&png_data) on the        *)
(* child's standard input.  A failed write_all has put some k bytes, fewer *)
(* than all, through; the early return then drops the child handle, which  *)
(* closes the pipe and leaves the process unwaited.                        *)
(***************************************************************************)
\* the mutant of StdinPayload: the decoded pixels are streamed
StdinPayloadRgba(r) == image[r].rgba
\* the bytes line 124 hands to write_all
StdinPayload(r) == pngData[r]

\* variant: the result of write_all is discarded and the wait goes ahead
WriteStdinUnchecked(r, k) ==
  /\ pc[r] = "write"
  /\ k \in 0 .. Len(StdinPayload(r))
  /\ child' = [child EXCEPT ![r].stdin =
                 IF child[r].stdinOpen THEN @ \o SubSeq(StdinPayload(r), 1, k) ELSE @]
  /\ pc' = [pc EXCEPT ![r] = "wait"]
  /\ UNCHANGED <<req, cmdReturn, pngData, image, clipCalls, log, joined, events,
                 fileVars, auxVars>>

WriteStdin(r, k) ==
  /\ pc[r] = "write"
  /\ k \in 0 .. Len(StdinPayload(r))
  /\ IF ~child[r].stdinOpen THEN
       \* child.stdin is None: nothing is written
       /\ k = Len(StdinPayload(r))
       /\ pc' = [pc EXCEPT ![r] = "wait"]
       /\ UNCHANGED <<child, joined>>
     ELSE IF k = Len(StdinPayload(r)) THEN
       /\ child' = [child EXCEPT ![r].stdin = @ \o StdinPayload(r)]
       /\ pc' = [pc EXCEPT ![r] = "wait"]
       /\ UNCHANGED joined
     ELSE
       /\ child' = [child EXCEPT ![r].stdin = @ \o SubSeq(StdinPayload(r), 1, k),
                                 ![r].stdinOpen = FALSE]
       /\ Return(r, Err("Failed to write to wl-copy: " \o WriteError))
  /\ UNCHANGED <<req, cmdReturn, pngData, image, clipCalls, log, events, fileVars, auxVars>>

(***************************************************************************)
(* copy_png_to_clipboard, line 128-139: wait_with_output and the exit      *)
(* status.  wait_with_output closes the child's standard input, waits, and *)
(* collects the streams that are pipes: a stream the child inherited goes  *)
(* to the application's own stream and leaves the Output field empty.      *)
(***************************************************************************)
Captured(stdio, text) == IF stdio = "piped" THEN text ELSE ""
Inherited(stdio, text) == IF stdio = "inherit" /\ text # "" THEN <<text>> ELSE <<>>

\* the mutant of CheckStatus: the exit status is not looked at
CheckStatusIgnored(output) == OkUnit
\* line 132-139
CheckStatus(output) ==
  IF output.status # 0
  THEN Err("wl-copy failed: " \o output.stderr)
  ELSE OkUnit

WaitWithOutput(r, waitOk, code, diag) ==
  /\ pc[r] = "wait"
  /\ IF waitOk THEN
       /\ child' = [child EXCEPT ![r] =
            [@ EXCEPT !.closedBeforeWait = TRUE, !.stdinOpen = FALSE,
                      !.running = FALSE, !.waited = TRUE,
                      !.status = code, !.wrote = diag]]
       /\ log' = [log EXCEPT ![r] = @ \o Inherited(child[r].stdio.stderr, diag)]
       /\ Return(r, CheckStatus([status |-> code,
                                  stderr |-> Captured(child[r].stdio.stderr, diag)]))
     ELSE
       /\ code = 0 /\ diag = ""
       /\ child' = [child EXCEPT ![r] =
            [@ EXCEPT !.closedBeforeWait = TRUE, !.stdinOpen = FALSE]]
       /\ Return(r, Err("Failed to wait for wl-copy: " \o WaitError))
       /\ UNCHANGED log
  /\ UNCHANGED <<req, cmdReturn, pngData, image, clipCalls, events, fileVars, auxVars>>

(***************************************************************************)
(* queue_clipboard_copy_base64, line 55-68: the join result is flattened   *)
(* and emitted as clipboard-copy-result.  The field task is not part of    *)
(* the payload: it records which call's task emitted the event.            *)
(***************************************************************************)
\* variant: a task that did not return counts as a copy that went through
TaskResultSwallowing(join) ==
  IF join.ok THEN join.val ELSE OkUnit
\* .map_err(|e| format!("Task join error: {}", e)).and_then(|r| r)
TaskResult(join) ==
  IF join.ok THEN join.val ELSE Err("Task join error: " \o join.err)

\* variant: success reports that the task ran to its end, whatever it returned
ClipboardCopyResultRan(result, version) ==
  [success |-> TRUE, error |-> ResultErr(result), version |-> version]
\* line 62-66
ClipboardCopyResult(result, version) ==
  [success |-> result.ok, error |-> ResultErr(result), version |-> version]

\* the mutant of EventVersion: the version of the latest call is reported
LatestVersion(r) ==
  LET last == CHOOSE q \in Requests :
                /\ req[q] # None
                /\ \A q2 \in Requests : req[q2] # None => q2 <= q
  IN  req[last][1].version
\* line 66: the version the task captured
EventVersion(r) == req[r][1].version

\* variant: a failed copy is dropped without telling the frontend
EmitResultIfOk(r) ==
  /\ pc[r] = "joined"
  /\ TaskResult(joined[r][1]).ok
  /\ events' = Append(events,
       [event |-> "clipboard-copy-result",
        payload |-> ClipboardCopyResult(TaskResult(joined[r][1]), EventVersion(r)),
        task |-> r])
  /\ pc' = [pc EXCEPT ![r] = "done"]
  /\ UNCHANGED <<req, cmdReturn, pngData, image, clipCalls, child, log, joined, fileVars, auxVars>>

EmitResult(r) ==
  /\ pc[r] = "joined"
  /\ events' = Append(events,
       [event |-> "clipboard-copy-result",
        payload |-> ClipboardCopyResult(TaskResult(joined[r][1]), EventVersion(r)),
        task |-> r])
  /\ pc' = [pc EXCEPT ![r] = "done"]
  /\ UNCHANGED <<req, cmdReturn, pngData, image, clipCalls, child, log, joined, fileVars, auxVars>>

(***************************************************************************)
(* Paths and arguments are sequences of tokens, so that their first        *)
(* character can be looked at.  The file system is a fixed one:            *)
(*   /tmp/doc.md          a file                                           *)
(*   /tmp/link.md         a symbolic link to /tmp/doc.md                   *)
(*   /tmp/odd             a symbolic link to a name that is not UTF-8      *)
(*   /home/u/notes.md     a file; /home/u is a directory, the current one  *)
(* and nothing else exists.                                                *)
(***************************************************************************)
Sep == "/"
NonUtf8Token == "<0xFF>"
DocMd == <<Sep, "tmp", Sep, "doc.md">>
LinkMd == <<Sep, "tmp", Sep, "link.md">>
OddLink == <<Sep, "tmp", Sep, "odd">>
OddTarget == <<Sep, "tmp", Sep, NonUtf8Token>>
GoneMd == <<Sep, "tmp", Sep, "gone.md">>
HomeDir == <<Sep, "home", Sep, "u">>
NotesRel == <<"notes.md">>
NopeRel == <<"nope.md">>
AppExe == <<"ursa-markup">>
FlagV == <<"-", "v">>
FlagLong == <<"-", "-", "verbose">>

\* std::env::current_dir() (line 18): the directory, or an error
CwdOutcomes == {Ok(HomeDir), Err("No such file or directory (os error 2)")}

\* Path::is_absolute (line 12)
IsAbsolute(p) == p # <<>> /\ p[1] = Sep
\* Path::join (line 20)
PathJoin(base, p) == IF IsAbsolute(p) THEN p ELSE base \o <<Sep>> \o p
\* Path::canonicalize (line 13, 20) on the file system above
Canonicalize(p) ==
  CASE p = DocMd -> Ok(DocMd)
    [] p = LinkMd -> Ok(DocMd)
    [] p = OddLink -> Ok(OddTarget)
    [] p = HomeDir \o <<Sep>> \o NotesRel -> Ok(HomeDir \o <<Sep>> \o NotesRel)
    [] p = HomeDir -> Ok(HomeDir)
    [] p = HomeDir \o <<Sep>> -> Ok(HomeDir)
    [] OTHER -> Err("No such file or directory (os error 2)")
\* Path::to_str (line 15, 21): None when the path is not UTF-8
ToStr(pb) == IF \E i \in 1 .. Len(pb) : pb[i] = NonUtf8Token THEN None ELSE Some(pb)
\* str::starts_with('-') (line 162)
StartsWithDash(arg) == arg # <<>> /\ arg[1] = "-"

\* the mutant of ResolveFilePath: a relative path that does not canonicalize
\* comes back joined to the current directory
ResolveFilePathJoined(path, cwd) ==
  IF IsAbsolute(path) THEN
    LET c == Canonicalize(path)
    IN  IF c.ok /\ ToStr(c.val) # None THEN ToStr(c.val)[1] ELSE path
  ELSE
    IF ~cwd.ok THEN path
    ELSE LET c == Canonicalize(PathJoin(cwd.val, path))
         IN  IF c.ok /\ ToStr(c.val) # None THEN ToStr(c.val)[1]
             ELSE PathJoin(cwd.val, path)

\* resolve_file_path (line 10-24); cwd is what current_dir() gives
ResolveFilePath(path, cwd) ==
  IF IsAbsolute(path) THEN
    LET c == Canonicalize(path)
    IN  IF c.ok /\ ToStr(c.val) # None THEN ToStr(c.val)[1] ELSE path
  ELSE
    IF ~cwd.ok THEN path
    ELSE LET c == Canonicalize(PathJoin(cwd.val, path))
         IN  IF c.ok /\ ToStr(c.val) # None THEN ToStr(c.val)[1] ELSE path

\* the arguments resolve_file_path is called with
PathInputs ==
  {DocMd, LinkMd, OddLink, GoneMd, NotesRel, NopeRel, AppExe, FlagV, <<>>, HomeDir}

\* one call of resolve_file_path, with what the call returned
ResolveCall(path, cwd) ==
  /\ Len(resolveCalls) < MaxResolves
  /\ resolveCalls' = Append(resolveCalls,
       [path |-> path, cwd |-> cwd, out |-> ResolveFilePath(path, cwd)])
  /\ UNCHANGED <<copyVars, events, fileVars, lock, gpPc, gpRet>>

(***************************************************************************)
(* setup (line 174-206): the "file" argument of the command line, as       *)
(* tauri_plugin_cli reports it, becomes the initial PendingFiles.          *)
(***************************************************************************)
JsonString(s) == [isString |-> TRUE, s |-> s]
JsonNull == [isString |-> FALSE, s |-> <<>>]
\* app.cli().matches() failed; or no "file" argument; or its value
CliNoMatches == [kind |-> "NoMatches", values |-> <<>>]
CliNoFileArg == [kind |-> "NoFileArg", values |-> <<>>]
CliOther == [kind |-> "Other", values |-> <<>>]
CliString(s) == [kind |-> "String", values |-> <<JsonString(s)>>]
CliArray(arr) == [kind |-> "Array", values |-> arr]
CliInputs ==
  {CliNoMatches, CliNoFileArg, CliOther, CliString(DocMd), CliString(NotesRel),
   CliArray(<<>>), CliArray(<<JsonString(LinkMd), JsonString(GoneMd)>>),
   CliArray(<<JsonString(NotesRel), JsonNull, JsonString(DocMd)>>)}

\* line 186-190: the strings of the array, each resolved, in order
RECURSIVE ResolveStrings(_, _)
ResolveStrings(arr, cwd) ==
  IF arr = <<>> THEN <<>>
  ELSE (IF arr[1].isString THEN <<ResolveFilePath(arr[1].s, cwd)>> ELSE <<>>)
       \o ResolveStrings(Tail(arr), cwd)

\* line 176-202
InitialPaths(cli, cwd) ==
  CASE cli.kind = "String" -> <<ResolveFilePath(cli.values[1].s, cwd)>>
    [] cli.kind = "Array" -> ResolveStrings(cli.values, cwd)
    [] OTHER -> <<>>

\* the mutant of Setup: the launch paths are announced as well as stored
SetupAnnouncing(cli, cwd) ==
  /\ ~setupDone
  /\ setupDone' = TRUE
  /\ launchArgs' = cli
  /\ store' = InitialPaths(cli, cwd)
  /\ events' = IF InitialPaths(cli, cwd) # <<>>
               THEN Append(events, [event |-> "open-files",
                      payload |-> [file_paths |-> InitialPaths(cli, cwd)], task |-> 0])
               ELSE events
  /\ UNCHANGED <<auxVars, copyVars, drains, launches>>

Setup(cli, cwd) ==
  /\ ~setupDone
  /\ setupDone' = TRUE
  /\ launchArgs' = cli
  /\ store' = InitialPaths(cli, cwd)
  /\ UNCHANGED <<auxVars, copyVars, events, drains, launches>>

(***************************************************************************)
(* get_pending_files (line 142-145): under the lock, drain(..).collect().  *)
(***************************************************************************)
\* the mutant of GetPendingFiles: the paths are copied, not drained
GetPendingFilesClone ==
  /\ setupDone
  /\ Len(drains) < MaxDrains
  /\ drains' = Append(drains, store)
  /\ UNCHANGED <<auxVars, copyVars, events, setupDone, launchArgs, store, launches>>

GetPendingFiles ==
  /\ setupDone
  /\ Len(drains) < MaxDrains
  /\ drains' = Append(drains, store)
  /\ store' = <<>>
  /\ UNCHANGED <<auxVars, copyVars, events, setupDone, launchArgs, launches>>

(***************************************************************************)
(* The single-instance callback (line 156-169), run in the first instance  *)
(* with the argument list of a second one.                                 *)
(***************************************************************************)
\* line 159-164: skip(1), filter, map, collect
RECURSIVE ResolveArgs(_, _)
ResolveArgs(args, cwd) ==
  IF args = <<>> THEN <<>>
  ELSE (IF StartsWithDash(args[1]) THEN <<>> ELSE <<ResolveFilePath(args[1], cwd)>>)
       \o ResolveArgs(Tail(args), cwd)
\* variant: the executable's own name is not skipped
FilePathsWithExe(argv, cwd) == ResolveArgs(argv, cwd)
FilePaths(argv, cwd) ==
  ResolveArgs(IF argv = <<>> THEN <<>> ELSE Tail(argv), cwd)

Argvs ==
  {<<>>, <<AppExe>>, <<AppExe, DocMd>>, <<AppExe, FlagV, FlagLong>>,
   <<AppExe, FlagV, NotesRel, LinkMd>>, <<AppExe, OddLink, GoneMd, NopeRel>>}

SingleInstance(argv, cwd) ==
  /\ setupDone
  /\ Len(launches) < MaxLaunches
  /\ launches' = Append(launches, argv)
  /\ LET file_paths == FilePaths(argv, cwd)
     IN  IF file_paths # <<>>
         THEN events' = Append(events,
                [event |-> "open-files", payload |-> [file_paths |-> file_paths], task |-> 0])
         ELSE UNCHANGED events
  /\ UNCHANGED <<auxVars, copyVars, setupDone, launchArgs, store, drains>>

(***************************************************************************)
(* The specifications.                                                     *)
(***************************************************************************)
(***************************************************************************)
(* get_pending_files, line 144, at the grain of the mutex: caller c blocks *)
(* in lock() until the mutex is free, moves the paths out of the vector    *)
(* one by one (drain(..).collect()), and drops the guard at the end of the *)
(* statement, returning what it collected.                                 *)
(***************************************************************************)
\* variant: the vector is entered without waiting for the mutex
LockPathsUnguarded(c) ==
  /\ setupDone
  /\ gpPc[c] = "start"
  /\ lock' = c
  /\ gpPc' = [gpPc EXCEPT ![c] = "locked"]
  /\ UNCHANGED <<copyVars, events, fileVars, resolveCalls, gpRet>>

\* state.paths.lock().unwrap()
LockPaths(c) ==
  /\ setupDone
  /\ gpPc[c] = "start"
  /\ lock = 0
  /\ lock' = c
  /\ gpPc' = [gpPc EXCEPT ![c] = "locked"]
  /\ UNCHANGED <<copyVars, events, fileVars, resolveCalls, gpRet>>

\* one element through .drain(..).collect()
DrainPath(c) ==
  /\ gpPc[c] = "locked"
  /\ store # <<>>
  /\ gpRet' = [gpRet EXCEPT ![c] = Append(@, Head(store))]
  /\ store' = Tail(store)
  /\ UNCHANGED <<copyVars, events, setupDone, launchArgs, drains, launches,
                 resolveCalls, lock, gpPc>>

\* the drain is exhausted: the guard is dropped and the vector returned
UnlockPaths(c) ==
  /\ gpPc[c] = "locked"
  /\ store = <<>>
  /\ lock' = 0
  /\ gpPc' = [gpPc EXCEPT ![c] = "returned"]
  /\ UNCHANGED <<copyVars, events, fileVars, resolveCalls, gpRet>>

Init ==
  /\ req = [r \in Requests |-> None]
  /\ cmdReturn = [r \in Requests |-> None]
  /\ pc = [r \in Requests |-> "idle"]
  /\ pngData = [r \in Requests |-> <<>>]
  /\ image = [r \in Requests |-> NoImage]
  /\ clipCalls = [r \in Requests |-> <<>>]
  /\ child = [r \in Requests |-> NoChild]
  /\ log = [r \in Requests |-> <<>>]
  /\ joined = [r \in Requests |-> None]
  /\ events = <<>>
  /\ setupDone = FALSE
  /\ launchArgs = CliNoMatches
  /\ store = <<>>
  /\ drains = <<>>
  /\ launches = <<>>
  /\ resolveCalls = <<>>
  /\ lock = 0
  /\ gpPc = [c \in Callers |-> "start"]
  /\ gpRet = [c \in Callers |-> <<>>]

CopyNext ==
  \E r \in Requests :
    \/ \E i \in Payloads, v \in Versions : QueueClipboardCopy(r, i, v)
    \/ Decode(r)
    \/ \E o \in PrimaryOutcomes : PrimaryAttempt(r, o)
    \/ \E ok \in BOOLEAN : SpawnHelper(r, ok)
    \/ \E k \in {1, Len(StdinPayload(r))} : WriteStdin(r, k)
    \/ \E w \in BOOLEAN, c \in ExitCodes, d \in HelperDiagnostics : WaitWithOutput(r, w, c, d)
    \/ EmitResult(r)

FileNext ==
  \/ \E cli \in CliInputs, cwd \in CwdOutcomes : Setup(cli, cwd)
  \/ GetPendingFiles
  \/ \E argv \in Argvs, cwd \in CwdOutcomes : SingleInstance(argv, cwd)

Next == CopyNext \/ FileNext

\* the whole application
Spec == Init /\ [][Next]_vars
\* the clipboard copy alone
CopySpec == Init /\ [][CopyNext]_vars
\* one step of the task that tokio::spawn started for call r: the runtime
\* keeps polling the task and the blocking pool keeps running its closure
TaskStep(r) ==
  \/ Decode(r)
  \/ \E o \in PrimaryOutcomes : PrimaryAttempt(r, o)
  \/ \E ok \in BOOLEAN : SpawnHelper(r, ok)
  \/ \E k \in {1, Len(StdinPayload(r))} : WriteStdin(r, k)
  \/ \E w \in BOOLEAN, c \in ExitCodes, d \in HelperDiagnostics : WaitWithOutput(r, w, c, d)
  \/ EmitResult(r)
\* the calls of a frontend that numbers its copies consecutively from 5, and
\* the steps of their tasks
FairNext ==
  \E r \in Requests :
    \/ \E i \in Payloads : QueueClipboardCopy(r, i, 4 + r)
    \/ TaskStep(r)
\* the clipboard copy with every spawned task scheduled fairly; a step that
\* calls the clipboard or waits for the helper is a step that has returned
CopyFairSpec == Init /\ [][FairNext]_vars /\ \A r \in Requests : WF_vars(TaskStep(r))
\* concurrent get_pending_files calls beside one copy request in flight
LockNext ==
  \/ \E cli \in CliInputs, cwd \in CwdOutcomes : Setup(cli, cwd)
  \/ \E c \in Callers : LockPaths(c) \/ DrainPath(c) \/ UnlockPaths(c)
  \/ QueueClipboardCopy(1, ImgTwoPx, 5)
  \/ TaskStep(1)
LockSpec == Init /\ [][LockNext]_vars

\* the pending files and the single-instance relay alone
FileSpec == Init /\ [][FileNext]_vars

\* resolve_file_path alone, on every input and every current_dir() outcome
ResolveNext == \E p \in PathInputs, cwd \in CwdOutcomes : ResolveCall(p, cwd)
ResolveSpec == Init /\ [][ResolveNext]_vars

(***************************************************************************)
(* Vocabulary of the properties.                                           *)
(***************************************************************************)
\* the blocking closure of call r is over (it returned or panicked)
Finished(r) == pc[r] \in {"joined", "done"}
\* what the task of call r reports, once Finished
Outcome(r) == TaskResult(joined[r][1])
\* the places in events of the clipboard-copy-result events of call r's task
ResultEventsOf(r) ==
  {i \in 1 .. Len(events) :
     events[i].event = "clipboard-copy-result" /\ events[i].task = r}
\* the places in events of the open-files events
OpenFilesEvents == {i \in 1 .. Len(events) : events[i].event = "open-files"}
\* the bytes the payload of call r decodes to, and whether they parse
RawBytes(r) == Base64Decode(req[r][1].image)
Decodes(r) == RawBytes(r).ok /\ LoadFromMemory(RawBytes(r).val).ok
\* the arboard attempt of call r was made and succeeded / failed
PrimarySucceeded(r) ==
  \E i \in 1 .. Len(clipCalls[r]) : clipCalls[r][i].call = "set_image" /\ clipCalls[r][i].ok
PrimaryFailed(r) ==
  clipCalls[r] # <<>> /\ ~clipCalls[r][Len(clipCalls[r])].ok
\* the fallback of call r ran: a spawn of wl-copy was attempted
FallbackRan(r) == child[r].spawns > 0
IsPrefix(a, b) == Len(a) <= Len(b) /\ a = SubSeq(b, 1, Len(a))

(***************************************************************************)
(* C1.  Every call gets exactly one clipboard-copy-result event: none      *)
(* while its task is under way, one once the task is done, never two, and  *)
(* it carries the version passed to that call.  No such event comes from   *)
(* anything but a call's task.                                             *)
(***************************************************************************)
C1_OneResultEventPerCall ==
  /\ \A r \in Requests :
       /\ Cardinality(ResultEventsOf(r)) = (IF pc[r] = "done" THEN 1 ELSE 0)
       /\ \A i \in ResultEventsOf(r) : events[i].payload.version = req[r][1].version
  /\ \A i \in 1 .. Len(events) :
       events[i].event = "clipboard-copy-result" => events[i].task \in Requests

\* two calls with different versions are done, one succeeded and one failed
C1_Witness ==
  \E r1, r2 \in Requests :
    /\ pc[r1] = "done" /\ pc[r2] = "done"
    /\ req[r1][1].version # req[r2][1].version
    /\ Outcome(r1).ok /\ ~Outcome(r2).ok

(***************************************************************************)
(* C2.  Once set_image has succeeded for a call, the call's outcome is     *)
(* Ok(()), its event (when emitted) reports success without an error, and  *)
(* wl-copy is never spawned for it.                                        *)
(***************************************************************************)
C2_PrimarySuccessIsFinal ==
  \A r \in Requests :
    PrimarySucceeded(r) =>
      /\ Finished(r) /\ Outcome(r) = OkUnit
      /\ child[r] = NoChild
      /\ \A i \in ResultEventsOf(r) :
           events[i].payload.success /\ events[i].payload.error = None

C2_Witness ==
  \E r \in Requests : PrimarySucceeded(r) /\ pc[r] = "done"

(***************************************************************************)
(* C3.  After a successful decode, when Clipboard::new or set_image fails, *)
(* the fallback is what comes next: the task is about to spawn wl-copy or  *)
(* has attempted it exactly once; and what reaches the helper's standard   *)
(* input is the bytes the base64 payload decodes to (a prefix of them if   *)
(* the write failed), never the RGBA buffer handed to arboard.             *)
(***************************************************************************)
C3_PrimaryFailureFallsBackWithPng ==
  \A r \in Requests :
    PrimaryFailed(r) =>
      /\ Decodes(r)
      /\ IF pc[r] = "spawn" THEN child[r].spawns = 0 ELSE child[r].spawns = 1
      /\ IsPrefix(child[r].stdin, RawBytes(r).val)
      /\ (pc[r] = "wait" \/ child[r].closedBeforeWait) => child[r].stdin = RawBytes(r).val
      /\ child[r].stdin # <<>> => ~IsPrefix(child[r].stdin, image[r].rgba)

\* both kinds of primary failure, each followed by a helper that got the bytes
C3_Witness ==
  \E r1, r2 \in Requests :
    /\ clipCalls[r1] = <<ClipNew(FALSE)>>
    /\ clipCalls[r2] = <<ClipNew(TRUE), ClipSetImage(image[r2], FALSE)>>
    /\ child[r1].waited /\ child[r1].stdin = RawBytes(r1).val
    /\ child[r2].waited /\ child[r2].stdin = RawBytes(r2).val

(***************************************************************************)
(* C4.  As claimed: when the bytes are no parsable image, the request is   *)
(* not over before the fallback has been attempted with the raw bytes.     *)
(***************************************************************************)
C4_DecodeFailureGoesToFallback ==
  \A r \in Requests :
    (Finished(r) /\ RawBytes(r).ok /\ ~LoadFromMemory(RawBytes(r).val).ok)
      => FallbackRan(r)

(***************************************************************************)
(* C4, amended.  When the payload does not decode (the base64 text is      *)
(* malformed, or its bytes are no parsable image), the request ends there: *)
(* its outcome is the decoder's error, "Failed to decode base64: .." or    *)
(* "Failed to decode PNG: ..", arboard is not called and wl-copy is        *)
(* neither spawned nor given any byte.                                     *)
(***************************************************************************)
C4_DecodeFailureEndsRequest ==
  \A r \in Requests :
    (pc[r] # "idle" /\ pc[r] # "blocking" /\ ~Decodes(r)) =>
      /\ Finished(r)
      /\ clipCalls[r] = <<>>
      /\ child[r] = NoChild
      /\ Outcome(r) =
           IF RawBytes(r).ok
           THEN Err("Failed to decode PNG: " \o LoadFromMemory(RawBytes(r).val).err)
           ELSE Err("Failed to decode base64: " \o RawBytes(r).err)
      /\ \A i \in ResultEventsOf(r) :
           ~events[i].payload.success /\ events[i].payload.error = Some(Outcome(r).err)

\* a call whose bytes are no image and a call whose text is no base64, both done
C4_Witness ==
  \E r1, r2 \in Requests :
    /\ pc[r1] = "done" /\ RawBytes(r1).ok /\ ~LoadFromMemory(RawBytes(r1).val).ok
    /\ pc[r2] = "done" /\ ~RawBytes(r2).ok

(***************************************************************************)
(* C5.  As claimed: the error text of every failed result event is the     *)
(* message of a helper spawn failure, of a stdin write failure or of a     *)
(* non-zero helper exit; and a call whose primary writer failed and whose  *)
(* helper succeeded reports success with no error.                         *)
(***************************************************************************)
SpawnFailureText == "Failed to spawn wl-copy: " \o SpawnError
WriteFailureText == "Failed to write to wl-copy: " \o WriteError
WaitFailureText == "Failed to wait for wl-copy: " \o WaitError
ExitFailureTexts == {"wl-copy failed: " \o d : d \in HelperDiagnostics}
DecodeFailureTexts ==
  {"Failed to decode base64: " \o e :
     e \in {"Invalid symbol", "Invalid input length", "Invalid padding", "Invalid last symbol"}}
  \cup {"Failed to decode PNG: " \o "The image format could not be determined"}
JoinFailureText == "Task join error: " \o PanicText
PrimaryFailureTexts ==
  {p \o e : p \in {"", "Failed to create clipboard: ", "arboard clipboard failed: "},
            e \in {ClipboardNewError, SetImageError}}
\* the primary writer of call r failed and its helper exited with status zero
HelperRescued(r) ==
  PrimaryFailed(r) /\ child[r].waited /\ child[r].status = 0

C5_OnlyFallbackErrorsSurface ==
  /\ \A i \in 1 .. Len(events) :
       (events[i].event = "clipboard-copy-result" /\ ~events[i].payload.success) =>
          \E t \in {SpawnFailureText, WriteFailureText} \cup ExitFailureTexts :
             events[i].payload.error = Some(t)
  /\ \A r \in Requests : \A i \in ResultEventsOf(r) :
       HelperRescued(r) => events[i].payload.success /\ events[i].payload.error = None

(***************************************************************************)
(* C5, amended.  No error of the primary writer reaches the caller: the    *)
(* error text of every failed result event is a decode failure (base64 or  *)
(* PNG), a fallback failure (spawn, stdin write, wait, non-zero exit) or a *)
(* task join error, none of which is or holds the Clipboard::new or        *)
(* set_image error; a call whose primary writer failed fails only with a   *)
(* fallback failure, and one whose helper then succeeded reports success   *)
(* with no error.                                                          *)
(***************************************************************************)
C5_PrimaryErrorsNeverSurface ==
  /\ \A i \in 1 .. Len(events) :
       (events[i].event = "clipboard-copy-result" /\ ~events[i].payload.success) =>
          /\ \E t \in {SpawnFailureText, WriteFailureText, WaitFailureText, JoinFailureText}
                      \cup ExitFailureTexts \cup DecodeFailureTexts :
                events[i].payload.error = Some(t)
          /\ \A t \in PrimaryFailureTexts : events[i].payload.error # Some(t)
  /\ \A r \in Requests : \A i \in ResultEventsOf(r) :
       /\ HelperRescued(r) => events[i].payload.success /\ events[i].payload.error = None
       /\ (PrimaryFailed(r) /\ ~events[i].payload.success) =>
            \E t \in {SpawnFailureText, WriteFailureText, WaitFailureText} \cup ExitFailureTexts :
               events[i].payload.error = Some(t)

\* one call failed in the primary writer and was rescued by the helper,
\* another failed in the primary writer and then in the fallback
C5_Witness ==
  \E r1, r2 \in Requests :
    /\ pc[r1] = "done" /\ HelperRescued(r1)
    /\ pc[r2] = "done" /\ PrimaryFailed(r2) /\ ~Outcome(r2).ok

(***************************************************************************)
(* C6.  The command has returned Ok(()) as soon as the call is made,       *)
(* before its background task has produced anything, and that return      *)
(* value stays Ok(()) whatever the payload and whatever the task's outcome *)
(* turns out to be: a failure shows only in the result event.              *)
(***************************************************************************)
C6_CommandAlwaysReturnsOk ==
  \A r \in Requests :
    /\ pc[r] = "idle" => cmdReturn[r] = None
    /\ pc[r] # "idle" => cmdReturn[r] = Some(OkUnit)
    /\ pc[r] = "blocking" => joined[r] = None /\ ResultEventsOf(r) = {}
    /\ \A i \in ResultEventsOf(r) :
         ~events[i].payload.success => cmdReturn[r] = Some(OkUnit)

\* the command has returned for a call that is still to be decoded, and for
\* calls that failed in the decoder and in the fallback
C6_Witness ==
  \E r1, r2 \in Requests :
    /\ pc[r1] = "done" /\ ~Outcome(r1).ok /\ cmdReturn[r1] = Some(OkUnit)
    /\ pc[r2] = "blocking" /\ ~Decodes(r2) /\ cmdReturn[r2] = Some(OkUnit)

(***************************************************************************)
(* C7.  When the fallback has run to its end, the outcome is Ok(()) if and *)
(* only if wl-copy was spawned, all of the bytes went into its standard    *)
(* input, the input was closed before the wait, and the wait gave exit     *)
(* status zero.  A non-zero status is never a success.                     *)
(***************************************************************************)
HelperSucceeded(r) ==
  /\ child[r].argv = HelperArgv
  /\ child[r].stdin = pngData[r]
  /\ child[r].closedBeforeWait /\ ~child[r].stdinOpen
  /\ child[r].waited /\ child[r].status = 0

C7_FallbackSuccessIffHelperSucceeded ==
  \A r \in Requests :
    (FallbackRan(r) /\ Finished(r)) =>
      /\ Outcome(r).ok <=> HelperSucceeded(r)
      /\ (child[r].waited /\ child[r].status # 0) => ~Outcome(r).ok
      /\ \A i \in ResultEventsOf(r) : events[i].payload.success <=> HelperSucceeded(r)

\* one fallback ended in success, another with a non-zero exit status
C7_Witness ==
  \E r1, r2 \in Requests :
    /\ pc[r1] = "done" /\ FallbackRan(r1) /\ HelperSucceeded(r1)
    /\ pc[r2] = "done" /\ child[r2].waited /\ child[r2].status # 0

(***************************************************************************)
(* C8.  As claimed: when wl-copy exits with a non-zero status, the error   *)
(* of the result event carries what the helper wrote on its standard error.*)
(***************************************************************************)
C8_ExitFailureCarriesHelperStderr ==
  \A r \in Requests : \A i \in ResultEventsOf(r) :
    (child[r].waited /\ child[r].status # 0) =>
       events[i].payload.error = Some("wl-copy failed: " \o child[r].wrote)

(***************************************************************************)
(* C9.  get_pending_files returns the paths of the store, in their order,  *)
(* and leaves the store empty: until the first call the store holds the    *)
(* resolved launch paths, the first call returns all of them, and every    *)
(* later call returns the empty list (nothing stores paths after setup).   *)
(***************************************************************************)
\* the resolved launch paths, for each thing current_dir() can have given
LaunchPaths == {InitialPaths(launchArgs, c) : c \in CwdOutcomes}

C9_DrainReturnsAllOnce ==
  setupDone =>
    IF drains = <<>>
    THEN store \in LaunchPaths
    ELSE /\ drains[1] \in LaunchPaths
         /\ store = <<>>
         /\ \A i \in 2 .. Len(drains) : drains[i] = <<>>

\* two launch paths were returned, in order, by the first call, none by the second
C9_Witness ==
  /\ Len(drains) >= 2
  /\ drains[1] = <<DocMd, GoneMd>>
  /\ drains[2] = <<>>
  /\ launches # <<>>

(***************************************************************************)
(* C10.  As claimed: the launch paths that get_pending_files returns have  *)
(* also been announced by an open-files event carrying them.               *)
(***************************************************************************)
C10_LaunchPathsAnnouncedAndStored ==
  (drains # <<>> /\ drains[1] # <<>>) =>
    \E i \in OpenFilesEvents : events[i].payload.file_paths = drains[1]

(***************************************************************************)
(* C10, amended.  The two ways of passing paths are kept apart.  The file  *)
(* arguments the process itself was launched with are held in the store    *)
(* and not announced: as long as no second instance was launched there is  *)
(* no open-files event, and get_pending_files returns those paths once and *)
(* then the empty list.  The file arguments of a second instance are       *)
(* announced by one open-files event carrying them, resolved, and never    *)
(* enter the store.                                                        *)
(***************************************************************************)
RECURSIVE Concat(_)
Concat(seqs) == IF seqs = <<>> THEN <<>> ELSE seqs[1] \o Concat(Tail(seqs))
\* the launches whose argument list holds a file path
LaunchesWithFiles ==
  {j \in 1 .. Len(launches) :
     \E k \in 2 .. Len(launches[j]) : ~StartsWithDash(launches[j][k])}

C10_LaunchPathsStoredRelayAnnounced ==
  /\ launches = <<>> => OpenFilesEvents = {}
  /\ Cardinality(OpenFilesEvents) = Cardinality(LaunchesWithFiles)
  /\ \A i \in OpenFilesEvents : \E j \in LaunchesWithFiles, c \in CwdOutcomes :
       events[i].payload.file_paths = FilePaths(launches[j], c)
  /\ setupDone => Concat(drains) \o store \in LaunchPaths
  /\ \A i \in 2 .. Len(drains) : drains[i] = <<>>

\* the launch path came back from the first call and not from the second,
\* and a second instance's paths were announced
C10_Witness ==
  /\ launchArgs = CliString(DocMd)
  /\ drains = <<(<<DocMd>>), <<>>>>
  /\ launches = <<(<<AppExe, FlagV, NotesRel, LinkMd>>)>>
  /\ \E i \in OpenFilesEvents :
       events[i].payload.file_paths = <<HomeDir \o <<Sep>> \o NotesRel, DocMd>>

(***************************************************************************)
(* C11.  resolve_file_path returns a string for every input.  The path it  *)
(* looks up is the input when that is absolute, else the input joined to   *)
(* the current directory.  When that path canonicalizes and the canonical  *)
(* path is UTF-8, the result is the canonical path: absolute, and its own  *)
(* canonical form.  When the current directory cannot be read (and was     *)
(* needed), or the path does not canonicalize, or the canonical path is    *)
(* not UTF-8, the result is the input, unchanged.                          *)
(***************************************************************************)
\* the three ways the resolution can fail, for a call k
CwdFailed(k) == ~IsAbsolute(k.path) /\ ~k.cwd.ok
LookedUp(k) == IF IsAbsolute(k.path) THEN k.path ELSE k.cwd.val \o <<Sep>> \o k.path
CanonFailed(k) == ~CwdFailed(k) /\ ~Canonicalize(LookedUp(k)).ok
TextFailed(k) ==
  /\ ~CwdFailed(k) /\ ~CanonFailed(k)
  /\ \E i \in 1 .. Len(Canonicalize(LookedUp(k)).val) :
       Canonicalize(LookedUp(k)).val[i] = NonUtf8Token

C11_ResolveNeverFails ==
  \A n \in 1 .. Len(resolveCalls) :
    LET k == resolveCalls[n]
    IN  IF CwdFailed(k) \/ CanonFailed(k) \/ TextFailed(k)
        THEN k.out = k.path
        ELSE /\ k.out = Canonicalize(LookedUp(k)).val
             /\ IsAbsolute(k.out)
             /\ Canonicalize(k.out) = Ok(k.out)

\* a relative path resolved through the current directory, and a relative
\* path given back as it was because the current directory could not be read
C11_Witness ==
  \E n, m \in 1 .. Len(resolveCalls) :
    /\ resolveCalls[n].path = NotesRel /\ resolveCalls[n].cwd.ok
    /\ resolveCalls[n].out = HomeDir \o <<Sep>> \o NotesRel
    /\ resolveCalls[m].path = NotesRel /\ ~resolveCalls[m].cwd.ok
    /\ resolveCalls[m].out = NotesRel

(***************************************************************************)
(* C12.  Within one request the stages run one after the other, in the     *)
(* order decode, primary attempt, fallback attempt.  The position of the   *)
(* task only moves forward, one stage at a time at most; arboard is called *)
(* only after a successful decode and before any spawn; wl-copy is spawned *)
(* only after the primary attempt has returned a failure; Clipboard::new,  *)
(* set_image and the spawn are each attempted at most once, and a request  *)
(* that is over stays over (no retry after the fallback failed).           *)
(***************************************************************************)
StageRank(p) ==
  CASE p = "idle" -> 0
    [] p = "blocking" -> 1
    [] p = "primary" -> 2
    [] p = "spawn" -> 3
    [] p = "write" -> 4
    [] p = "wait" -> 5
    [] p = "joined" -> 6
    [] OTHER -> 7
CallsOf(r, name) ==
  Cardinality({i \in 1 .. Len(clipCalls[r]) : clipCalls[r][i].call = name})

C12_StagesInOrder ==
  \A r \in Requests :
    /\ StageRank(pc[r]) <= 2 => clipCalls[r] = <<>> /\ child[r] = NoChild
    /\ pc[r] = "primary" => image[r] = LoadFromMemory(RawBytes(r).val).val /\ pngData[r] = RawBytes(r).val
    /\ clipCalls[r] # <<>> => Decodes(r) /\ image[r] # NoImage
    /\ CallsOf(r, "Clipboard::new") <= 1 /\ CallsOf(r, "set_image") <= 1
    /\ Len(clipCalls[r]) = 2 => clipCalls[r][1] = ClipNew(TRUE) /\ clipCalls[r][2].call = "set_image"
    /\ child[r].spawns <= 1
    /\ pc[r] \in {"spawn", "write", "wait"} => PrimaryFailed(r)
    /\ pc[r] = "spawn" => child[r] = NoChild
    /\ FallbackRan(r) => PrimaryFailed(r)
    /\ child[r].stdin # <<>> => child[r].argv = HelperArgv
    /\ child[r].waited => child[r].stdin = pngData[r]

\* the position of every task moves forward only, and a finished request is
\* not worked on again
C12_StagesAdvance ==
  [][\A r \in Requests :
       /\ StageRank(pc'[r]) >= StageRank(pc[r])
       /\ Finished(r) => /\ clipCalls'[r] = clipCalls[r]
                         /\ child'[r] = child[r]
                         /\ joined'[r] = joined[r]]_vars

C12_SequentialStages == []C12_StagesInOrder /\ C12_StagesAdvance

\* a request went through all three stages and failed in the last
C12_Witness ==
  \E r \in Requests :
    /\ pc[r] = "done"
    /\ Len(clipCalls[r]) = 2 /\ PrimaryFailed(r)
    /\ child[r].waited /\ child[r].status # 0

(***************************************************************************)
(* C13.  Call 1 is made with version 5 and call 2 with version 6, and the  *)
(* two overlap.  Whichever task is ready first may emit first: when both   *)
(* have joined, either emission can be the next step.  In every order each *)
(* event carries the version of the call whose task emitted it, so the     *)
(* events a caller accepts because they carry its latest version, 6, are   *)
(* never the outcome of call 1.                                            *)
(***************************************************************************)
Versions5Then6 ==
  /\ req[1] # None /\ req[1][1].version = 5
  /\ req[2] # None /\ req[2][1].version = 6
\* the events a caller takes that only accepts its latest version
AcceptedWith(latest) ==
  {i \in 1 .. Len(events) :
     events[i].event = "clipboard-copy-result" /\ events[i].payload.version = latest}

C13_StaleOutcomeIsIgnored ==
  Versions5Then6 =>
    /\ \A i \in ResultEventsOf(1) : events[i].payload.version = 5
    /\ \A i \in ResultEventsOf(2) : events[i].payload.version = 6
    /\ \A i \in AcceptedWith(6) :
         /\ events[i].task # 1
         /\ events[i].payload = ClipboardCopyResult(Outcome(events[i].task), 6)
    /\ (pc[1] = "joined" /\ pc[2] = "joined") =>
         (ENABLED EmitResult(1)) /\ (ENABLED EmitResult(2))

\* the outcome of call 1 (version 5, a failure) arrives after that of call 2
\* (version 6, a success)
C13_Witness ==
  /\ Versions5Then6
  /\ Len(events) = 2
  /\ events[1].task = 2 /\ events[1].payload.version = 6 /\ events[1].payload.success
  /\ events[2].task = 1 /\ events[2].payload.version = 5 /\ ~events[2].payload.success

\* the same two calls with their outcomes arriving in the order of the calls
C13_InOrderReached ==
  /\ Versions5Then6
  /\ Len(events) = 2
  /\ events[1].task = 1 /\ events[2].task = 2

(***************************************************************************)
(* C14.  With every spawned task scheduled fairly, and the clipboard call  *)
(* and the helper process returning, every queued request eventually is    *)
(* finished with an outcome that is either a success or a failure and has  *)
(* emitted its result event.  No step cancels a request: a queued request  *)
(* keeps the image and version it was queued with, never goes back to      *)
(* idle, and an emitted event is never withdrawn.                          *)
(***************************************************************************)
Queued(r) == pc[r] # "idle"
Terminal(r) ==
  /\ Finished(r)
  /\ Outcome(r).ok \/ Outcome(r).err # ""
  /\ ResultEventsOf(r) # {}
NoCancellation ==
  \A r \in Requests :
    Queued(r) => /\ Queued(r)'
                 /\ req'[r] = req[r]
                 /\ Len(events') >= Len(events)
                 /\ Terminal(r) => Terminal(r)'

C14_EveryRequestCompletes ==
  /\ \A r \in Requests : Queued(r) ~> Terminal(r)
  /\ [][NoCancellation]_vars

\* both requests are finished, one as a success and one as a failure
C14_Witness ==
  /\ Terminal(1) /\ Outcome(1).ok
  /\ Terminal(2) /\ ~Outcome(2).ok

(***************************************************************************)
(* C15.  The fallback runs its steps in one order.  The helper is spawned  *)
(* as wl-copy --type image/png; bytes are written only to a helper that    *)
(* was spawned; the wait begins only after all the PNG bytes were written, *)
(* and it closes the helper's input before waiting; the exit status is     *)
(* looked at only after the wait.  A failed spawn ends the request with    *)
(* the spawn error and nothing written; a failed write ends the request    *)
(* with the write error and the helper never waited for.                   *)
(***************************************************************************)
Spawned(r) == child[r].argv # <<>>
SpawnFailed(r) == child[r].spawns > 0 /\ ~Spawned(r)
WriteFailed(r) == Spawned(r) /\ Finished(r) /\ Len(child[r].stdin) < Len(pngData[r])
MimeTypeOf(argv) ==
  IF \E n \in 1 .. Len(argv) - 1 : argv[n] = "--type"
  THEN argv[1 + CHOOSE n \in 1 .. Len(argv) - 1 : argv[n] = "--type"]
  ELSE ""

C15_FallbackStepsInOrder ==
  \A r \in Requests :
    /\ Spawned(r) => /\ child[r].argv[1] = "wl-copy"
                     /\ MimeTypeOf(child[r].argv) = "image/png"
                     /\ child[r].stdio.stdin = "piped"
    /\ pc[r] = "write" => Spawned(r) /\ child[r].stdin = <<>> /\ child[r].stdinOpen
    /\ child[r].stdin # <<>> => Spawned(r)
    /\ pc[r] = "wait" => /\ child[r].stdin = pngData[r] /\ pngData[r] # <<>>
                         /\ child[r].stdinOpen /\ ~child[r].waited
    /\ child[r].closedBeforeWait => ~child[r].stdinOpen /\ child[r].stdin = pngData[r]
    /\ child[r].waited => child[r].closedBeforeWait /\ Finished(r)
    /\ (Finished(r) /\ child[r].waited) =>
         joined[r] = Some(Ok(IF child[r].status = 0 THEN OkUnit
                             ELSE Err("wl-copy failed: ")))
    /\ SpawnFailed(r) => /\ Finished(r)
                         /\ child[r].stdin = <<>> /\ ~child[r].waited
                         /\ joined[r] = Some(Ok(Err(SpawnFailureText)))
    /\ WriteFailed(r) => /\ ~child[r].waited /\ ~child[r].closedBeforeWait
                         /\ joined[r] = Some(Ok(Err(WriteFailureText)))

\* one request went through all the steps and its helper exited with 0,
\* the other ended at a failed write
C15_Witness ==
  /\ Finished(1) /\ child[1].waited /\ child[1].status = 0
  /\ child[1].stdin = pngData[1] /\ Outcome(1).ok
  /\ WriteFailed(2) /\ child[2].stdin # <<>>

\* a request ended at a failed spawn
C15_SpawnFailureReached == \E r \in Requests : SpawnFailed(r) /\ pc[r] = "done"

(***************************************************************************)
(* C16.  get_pending_files calls exclude one another on the store: at most *)
(* one caller is between lock() and the drop of the guard, and it is the   *)
(* holder of the mutex.  In every interleaving the paths of the launch are *)
(* split, in order, between one caller and what is still stored: no path   *)
(* is lost and none is returned twice.  The mutex is held only from a      *)
(* caller's lock() to the end of its drain: no step of a copy request,     *)
(* blocking I/O included, takes, holds, releases or waits for it.          *)
(***************************************************************************)
InDrain == {c \in Callers : gpPc[c] = "locked"}
CopyStep == \E r \in Requests : pc'[r] # pc[r]

C16_StoreIsExclusive ==
  /\ IF lock = 0 THEN InDrain = {} ELSE InDrain = {lock}
  /\ \A c \in Callers : gpPc[c] = "start" => gpRet[c] = <<>>
  /\ setupDone =>
       \E c \in Callers :
         /\ \A d \in Callers \ {c} : gpRet[d] = <<>>
         /\ (gpRet[c] \o store) \in LaunchPaths
  /\ (\A c \in Callers : gpPc[c] = "returned") => store = <<>> /\ lock = 0
C16_CopyNeverTouchesLock ==
  CopyStep => lock' = lock /\ store' = store /\ gpPc' = gpPc /\ gpRet' = gpRet
C16_DrainBesideHelperWait ==
  /\ lock \in Callers /\ gpRet[lock] # <<>> /\ store # <<>>
  /\ pc[1] = "wait"

(***************************************************************************)
(* C17.  A launch of a second instance emits open-files exactly when its   *)
(* arguments, the first one left out and those starting with '-' dropped,  *)
(* are not empty.  The event carries those arguments in their order, each  *)
(* replaced by what resolve_file_path makes of it.  The launch leaves the  *)
(* stored pending paths, and what was drained from them, as they were.     *)
(***************************************************************************)
KeptArgs(argv) ==
  LET NoDash(a) == ~StartsWithDash(a)
  IN  SelectSeq(SubSeq(argv, 2, Len(argv)), NoDash)
Announcing ==
  LET HasFiles(argv) == KeptArgs(argv) # <<>>
  IN  SelectSeq(launches, HasFiles)
OpenFilesSeq ==
  LET IsOpenFiles(e) == e.event = "open-files"
  IN  SelectSeq(events, IsOpenFiles)

C17_EventsMatchLaunches ==
  /\ Len(OpenFilesSeq) = Len(Announcing)
  /\ \A i \in 1 .. Len(OpenFilesSeq) :
       LET kept == KeptArgs(Announcing[i])
           sent == OpenFilesSeq[i].payload.file_paths
       IN  /\ Len(sent) = Len(kept)
           /\ \E c \in CwdOutcomes :
                \A n \in 1 .. Len(kept) : sent[n] = ResolveFilePath(kept[n], c)
C17_LaunchLeavesStore ==
  launches' # launches =>
    /\ store' = store /\ drains' = drains
    /\ Len(events') = Len(events) + (IF KeptArgs(launches'[Len(launches')]) # <<>> THEN 1 ELSE 0)
C17_SecondInstanceAnnounces ==
  []C17_EventsMatchLaunches /\ [][C17_LaunchLeavesStore]_vars

\* a launch with a flag, a relative path and a link was announced as two
\* resolved paths, while the paths of the first launch are still stored
C17_Witness ==
  /\ launches # <<>> /\ launches[1] = <<AppExe, FlagV, NotesRel, LinkMd>>
  /\ Len(OpenFilesSeq) = 1
  /\ Len(OpenFilesSeq[1].payload.file_paths) = 2
  /\ OpenFilesSeq[1].payload.file_paths[1] = HomeDir \o <<Sep>> \o NotesRel
  /\ OpenFilesSeq[1].payload.file_paths[2] = DocMd
  /\ store # <<>>

\* a launch with nothing but flags was not announced
C17_SilentLaunchReached ==
  /\ launches # <<>> /\ launches[1] = <<AppExe, FlagV, FlagLong>>
  /\ events = <<>>

(***************************************************************************)
(* C18.  In every clipboard-copy-result event, success is true exactly     *)
(* when there is no error: a success carries no error text and a failure   *)
(* carries one.                                                            *)
(***************************************************************************)
ResultEvents == {i \in 1 .. Len(events) : events[i].event = "clipboard-copy-result"}

C18_SuccessIffNoError ==
  \A i \in ResultEvents :
    LET p == events[i].payload
    IN  /\ p.success \in BOOLEAN
        /\ Len(p.error) <= 1
        /\ p.success <=> p.error = None
        /\ ~p.success => Len(p.error) = 1 /\ p.error[1] # ""

\* a success without an error and a failure with its error text were emitted
C18_Witness ==
  /\ \E i \in ResultEvents : events[i].payload.success /\ events[i].payload.error = None
  /\ \E i \in ResultEvents : ~events[i].payload.success /\ events[i].payload.error # None

(***************************************************************************)
(* C19.  When the blocking worker of a call panics, so that the task gets  *)
(* a join error in place of the function's result, the call still emits    *)
(* one result event and no more, and it carries success = false, the text  *)
(* "Task join error: " followed by the join error, and the call's version. *)
(***************************************************************************)
WorkerAborted(r) == joined[r] # None /\ ~joined[r][1].ok

C19_JoinErrorIsReported ==
  \A r \in Requests :
    /\ (WorkerAborted(r) /\ pc[r] = "joined") => ResultEventsOf(r) = {} /\ ENABLED EmitResult(r)
    /\ (WorkerAborted(r) /\ pc[r] = "done") =>
         /\ Cardinality(ResultEventsOf(r)) = 1
         /\ \A i \in ResultEventsOf(r) :
              events[i].payload =
                [success |-> FALSE,
                 error |-> <<"Task join error: " \o joined[r][1].err>>,
                 version |-> req[r][1].version]
    /\ WorkerAborted(r) => Finished(r) /\ joined[r][1].err = PanicText

\* a call whose worker panicked has emitted its event
C19_Witness ==
  \E r \in Requests :
    /\ WorkerAborted(r) /\ pc[r] = "done"
    /\ \E i \in ResultEventsOf(r) : ~events[i].payload.success
====
